---- MODULE Spec2Model ----
(***************************************************************************)
(* Model of the Parallel Web search/extract adapters (src/search.py) and   *)
(* of the enclave-dispatched tools (src/src/parallel.py).                  *)
(*                                                                         *)
(* Python values are tagged records: None, Str(chars), List(seq),          *)
(* Dict(function from key to value).  A Python str is a sequence of        *)
(* one-character strings, so joins and f-strings are real concatenations.  *)
(* A call runs atomically up to its single await (the POST), and again     *)
(* from the answer to its return or raise.                                 *)
(***************************************************************************)
EXTENDS Integers, Sequences, FiniteSets, TLC

VARIABLES
    environ,    \* os.environ["PARALLEL_API_KEY"]: None when unset, else Str
    pc,         \* "idle" | "awaiting" (the POST is in flight) | "done"
    op,         \* which operation the current call is
    args,       \* the current call's arguments, as the caller passed them
    sent,       \* outbound requests issued by the current call, in order
    response,   \* the remote answer the call resumed with
    outcome     \* what the call returned or raised

vars == <<environ, pc, op, args, sent, response, outcome>>

----------------------------------------------------------------------------
(* Bounds of the model *)

MaxQueries == 2      \* longest query list / url list passed by a caller
MaxElems == 2        \* longest `results` list the remote answers with

----------------------------------------------------------------------------
(* Python values *)

None == [t |-> "None"]
Str(s) == [t |-> "str", v |-> s]
List(l) == [t |-> "list", v |-> l]
Dict(d) == [t |-> "dict", v |-> d]

IsList(x) == x.t = "list"
IsDict(x) == x.t = "dict"

\* bool(x) for the value kinds above
Truthy(x) ==
    CASE x.t = "None" -> FALSE
      [] x.t = "str"  -> Len(x.v) > 0
      [] x.t = "list" -> Len(x.v) > 0
      [] x.t = "dict" -> DOMAIN x.v # {}

\* x or y
PyOr(x, y) == IF Truthy(x) THEN x ELSE y

\* key in d
HasKey(d, key) == key \in DOMAIN d.v

\* d.get(key, default)
Get(d, key, default) == IF key \in DOMAIN d.v THEN d.v[key] ELSE default

RECURSIVE JoinChars(_, _)
\* sep.join(strs) on a sequence of character sequences
JoinChars(sep, strs) ==
    IF Len(strs) = 0 THEN <<>>
    ELSE IF Len(strs) = 1 THEN strs[1]
    ELSE strs[1] \o sep \o JoinChars(sep, Tail(strs))

\* sep.join(l) on a Python list of Python strs
Join(sep, l) == Str(JoinChars(sep, [i \in 1..Len(l.v) |-> l.v[i].v]))

DigitChars == <<"0", "1", "2", "3", "4", "5", "6", "7", "8", "9">>

RECURSIVE IntToChars(_)
\* str(n) for a non-negative int
IntToChars(n) ==
    IF n < 10 THEN <<DigitChars[n + 1]>>
    ELSE IntToChars(n \div 10) \o <<DigitChars[(n % 10) + 1]>>

----------------------------------------------------------------------------
(* String literals of the source *)

CommaSpace == <<",", " ">>
BlankLine == <<"\n", "\n">>
DefaultObjectivePrefix ==
    <<"F","i","n","d"," ","r","e","l","e","v","a","n","t"," ",
      "i","n","f","o","r","m","a","t","i","o","n"," ","f","o","r",":"," ">>
ApiErrorPrefix ==
    <<"P","a","r","a","l","l","e","l"," ","A","P","I"," ",
      "e","r","r","o","r"," ","(">>
ApiErrorMiddle == <<")", ":", " ">>
MissingKeyMessage ==
    <<"P","A","R","A","L","L","E","L","_","A","P","I","_","K","E","Y"," ",
      "e","n","v","i","r","o","n","m","e","n","t"," ",
      "v","a","r","i","a","b","l","e"," ","n","o","t"," ","s","e","t">>
RequestFailedMessage ==
    <<"R","e","q","u","e","s","t"," ","f","a","i","l","e","d">>

PARALLEL_API_BASE == "https://api.parallel.ai/v1beta"
PARALLEL_BETA_HEADER == "search-extract-2025-10-10"
DEFAULT_MAX_RESULTS == 10
DEFAULT_MAX_CHARS == 10000
HTTP_OK == 200

----------------------------------------------------------------------------
(* Callers' arguments *)

A == <<"a">>
B == <<"b">>

RECURSIVE SeqsUpTo(_, _)
\* every sequence over S of length 0..n
SeqsUpTo(S, n) ==
    IF n = 0 THEN {<<>>}
    ELSE LET shorter == SeqsUpTo(S, n - 1)
         IN shorter \cup {Append(q, x) : q \in shorter, x \in S}

QueryLists == SeqsUpTo({A, B}, MaxQueries)
UrlLists == SeqsUpTo({<<"u">>, <<"v">>}, MaxQueries)
Objectives == {None, Str(<<>>), Str(<<"o">>)}
ApiKeys == {None, Str(<<>>), Str(<<"k">>)}
EnvKeys == {None, Str(<<>>), Str(<<"e">>)}

----------------------------------------------------------------------------
(* src/search.py: credential, headers, request bodies *)

\* api_key = api_key or os.getenv("PARALLEL_API_KEY")
ResolveApiKey(api_key) == PyOr(api_key, environ)

\* faulty variant: the check is `if api_key is None`
CredentialMissing_OnlyNone(api_key) == api_key = None

\* if not api_key: raise ValueError(...)
CredentialMissing(api_key) == ~Truthy(api_key)

Headers(api_key) ==
    [content_type |-> "application/json",
     x_api_key |-> api_key.v,
     parallel_beta |-> PARALLEL_BETA_HEADER]

\* faulty variant: the queries are joined with "," alone
DefaultObjective_NoSpace(queries) ==
    DefaultObjectivePrefix \o JoinChars(<<",">>, queries)

DefaultObjective(queries) ==
    DefaultObjectivePrefix \o JoinChars(CommaSpace, queries)

SearchObjective(queries, objective) ==
    IF Truthy(objective) THEN objective.v ELSE DefaultObjective(queries)

SearchBody(queries, objective, max_results, max_chars_per_result) ==
    [search_queries |-> queries,
     max_results |-> max_results,
     excerpts |-> [max_chars_per_result |-> max_chars_per_result],
     objective |-> SearchObjective(queries, objective)]

\* faulty variant: an absent objective is sent as null
ExtractObjective_AlwaysSent(objective) ==
    [objective |-> IF Truthy(objective) THEN objective.v ELSE None]

ExtractObjective(objective) ==
    IF Truthy(objective) THEN [objective |-> objective.v] ELSE <<>>

ExtractBody(urls, objective, excerpts, full_content) ==
    [urls |-> urls, excerpts |-> excerpts, full_content |-> full_content]
        @@ ExtractObjective(objective)

HttpPost(path, headers, body) ==
    [method |-> "POST", base |-> PARALLEL_API_BASE, path |-> path,
     headers |-> headers, json |-> body]

ValueErrorRaised == [kind |-> "raise", exc |-> "ValueError", msg |-> MissingKeyMessage]

\* faulty variant: the message carries the status alone
ApiErrorMessage_NoBody(status_code, text) ==
    ApiErrorPrefix \o IntToChars(status_code) \o <<")">>

ApiErrorMessage(status_code, text) ==
    ApiErrorPrefix \o IntToChars(status_code) \o ApiErrorMiddle \o text

ApiErrorRaised(resp) ==
    [kind |-> "raise", exc |-> "Exception",
     msg |-> ApiErrorMessage(resp.status_code, resp.text)]

Returned(value) == [kind |-> "return", value |-> value]

----------------------------------------------------------------------------
(* src/search.py: normalising a 200 search response *)

SearchResult(title, url, excerpt, source) ==
    [title |-> title, url |-> url, excerpt |-> excerpt, source |-> source]

SearchResponse(query, results, total_results) ==
    [query |-> query, results |-> results, total_results |-> total_results]

\* an item of a group: excerpt = item.get("excerpt") or item.get("content")
GroupedResult(item) ==
    SearchResult(Get(item, "title", None),
                 Get(item, "url", None),
                 PyOr(Get(item, "excerpt", None), Get(item, "content", None)),
                 Get(item, "source", None))

\* faulty variant: the excerpts are joined with a single newline
FlatExcerpt_OneNewline(item) ==
    IF Truthy(Get(item, "excerpts", None))
    THEN Join(<<"\n">>, Get(item, "excerpts", List(<<>>)))
    ELSE Get(item, "content", None)

FlatExcerpt(item) ==
    IF Truthy(Get(item, "excerpts", None))
    THEN Join(BlankLine, Get(item, "excerpts", List(<<>>)))
    ELSE Get(item, "content", None)

\* an item of a flat list
FlatResult(item) ==
    SearchResult(Get(item, "title", None),
                 Get(item, "url", None),
                 FlatExcerpt(item),
                 Get(item, "source", None))

GroupResponse(result_group) ==
    LET query == Get(result_group, "query", Str(<<>>))
        items == Get(result_group, "results", List(<<>>))
        search_results == [i \in 1..Len(items.v) |-> GroupedResult(items.v[i])]
    IN SearchResponse(query.v, search_results, Len(search_results))

GroupedResponses(results_data) ==
    [g \in 1..Len(results_data.v) |-> GroupResponse(results_data.v[g])]

\* faulty variant: total_results is left at its default
FlatResponses_TotalDefault(results_data, queries) ==
    <<SearchResponse(JoinChars(CommaSpace, queries),
                     [i \in 1..Len(results_data.v) |-> FlatResult(results_data.v[i])],
                     0)>>

FlatResponses(results_data, queries) ==
    LET search_results ==
            [i \in 1..Len(results_data.v) |-> FlatResult(results_data.v[i])]
    IN <<SearchResponse(JoinChars(CommaSpace, queries), search_results,
                        Len(search_results))>>

\* faulty variant: nothing is returned for an empty payload
EmptyResponses_None(queries) == <<>>

EmptyResponses(queries) ==
    [q \in 1..Len(queries) |-> SearchResponse(queries[q], <<>>, 0)]

\* faulty variant: any element carrying `query` makes the payload grouped
SearchShape_AnyQuery(results_data) ==
    IF IsList(results_data) /\ Len(results_data.v) > 0
    THEN IF \E i \in 1..Len(results_data.v) :
                IsDict(results_data.v[i]) /\ HasKey(results_data.v[i], "query")
         THEN "grouped"
         ELSE "flat"
    ELSE "empty"

\* "grouped" | "flat" | "empty": the branch lines 98-142 take
SearchShape(results_data) ==
    IF IsList(results_data) /\ Len(results_data.v) > 0
    THEN IF IsDict(results_data.v[1]) /\ HasKey(results_data.v[1], "query")
         THEN "grouped"
         ELSE "flat"
    ELSE "empty"

ParseSearch(data, queries) ==
    LET results_data == Get(data, "results", List(<<>>))
        shape == SearchShape(results_data)
    IN CASE shape = "grouped" -> GroupedResponses(results_data)
         [] shape = "flat"    -> FlatResponses(results_data, queries)
         [] shape = "empty"   -> EmptyResponses(queries)

----------------------------------------------------------------------------
(* src/search.py: normalising a 200 extract response *)

\* faulty variant: a missing full_content is made up from the excerpts
ExtractResult_Synthesized(item) ==
    [url |-> Get(item, "url", Str(<<>>)),
     title |-> Get(item, "title", None),
     publish_date |-> Get(item, "publish_date", None),
     excerpts |-> Get(item, "excerpts", None),
     full_content |-> IF HasKey(item, "full_content") THEN item.v["full_content"]
                      ELSE IF HasKey(item, "excerpts")
                           THEN Join(BlankLine, item.v["excerpts"])
                           ELSE None]

ExtractResult(item) ==
    [url |-> Get(item, "url", Str(<<>>)),
     title |-> Get(item, "title", None),
     publish_date |-> Get(item, "publish_date", None),
     excerpts |-> Get(item, "excerpts", None),
     full_content |-> Get(item, "full_content", None)]

ExtractResults(data) ==
    LET items == Get(data, "results", List(<<>>))
    IN [i \in 1..Len(items.v) |-> ExtractResult(items.v[i])]

ExtractResponse(data) ==
    [extract_id |-> Get(data, "extract_id", None),
     results |-> ExtractResults(data),
     errors |-> Get(data, "errors", List(<<>>)).v]

----------------------------------------------------------------------------
(* src/src/parallel.py: the same tools dispatched through the enclave *)

ToolSearchBody(queries, objective, max_results, max_chars_per_result) ==
    [search_queries |-> queries,
     max_results |-> max_results,
     excerpts |-> [max_chars_per_result |-> max_chars_per_result],
     objective |-> IF Truthy(objective) THEN objective.v
                   ELSE DefaultObjectivePrefix \o JoinChars(CommaSpace, queries)]

ToolExtractBody(urls, objective, excerpts, full_content) ==
    [urls |-> urls, excerpts |-> excerpts, full_content |-> full_content]
        @@ (IF Truthy(objective) THEN [objective |-> objective.v] ELSE <<>>)

\* HttpRequest(method=method, path=path, body=body), params being None
HttpRequest(path, body) == [method |-> "POST", path |-> path, body |-> body]

ParallelResult(success, data, error) ==
    [success |-> success, data |-> data, error |-> error]

\* _request after ctx.dispatch answered
RequestResult(dispatched) ==
    IF dispatched.success
    THEN ParallelResult(TRUE, dispatched.body, None)
    ELSE ParallelResult(FALSE, None,
            IF Truthy(dispatched.error) THEN Get(dispatched.error, "message", None)
            ELSE Str(RequestFailedMessage))

----------------------------------------------------------------------------
(* What the remote service may answer.                                     *)
(* The body of a 200 answer is a JSON object.  `results` of a search       *)
(* answer may be absent, null, a string, an object or a list; the elements *)
(* of a list are objects whose fields, when present, have the types of the *)
(* remote schema (strings, lists of strings, lists of objects).  Group-like *)
(* and item-like objects may be mixed in one list, in any order.           *)

Text(c) == Str(<<c>>)

\* items nested in a group
N1 == Dict([title |-> Text("t"), url |-> Text("u"), source |-> Text("s"),
            excerpt |-> Text("e"), content |-> Text("c")])
N2 == Dict([excerpt |-> Str(<<>>), content |-> Text("c")])
N3 == Dict([url |-> Text("u"), content |-> Text("c")])
N4 == Dict([excerpt |-> Str(<<>>)])

\* groups: with and without `query`, with and without `results`
G1 == Dict([query |-> Str(A)])
G2 == Dict([query |-> Str(A), results |-> List(<<N1, N2>>)])
G3 == Dict([query |-> Str(B), results |-> List(<<N3, N4>>)])
G4 == Dict([results |-> List(<<N1>>)])

\* items of a flat list
F1 == Dict([title |-> Text("t"), url |-> Text("u"), source |-> Text("s"),
            excerpts |-> List(<<Str(A), Str(B)>>), content |-> Text("c")])
F2 == Dict([title |-> Text("t"), excerpts |-> List(<<>>), content |-> Text("c")])
F3 == Dict([excerpt |-> Text("e"), content |-> Text("c")])
F4 == Dict(<<>>)
F5 == Dict([excerpts |-> List(<<Str(<<>>)>>), content |-> Text("c")])

SearchElems == {G1, G2, G3, G4, F1, F2, F3, F4, F5}

\* values of `results` that are not lists
NonListResults == {None, Str(A), G1}

SearchPayloads ==
    {Dict([search_id |-> Text("x")])}
    \cup {Dict([search_id |-> Text("x"), results |-> r]) : r \in NonListResults}
    \cup {Dict([search_id |-> Text("x"), results |-> List(l)]) :
            l \in SeqsUpTo(SearchElems, MaxElems)}

X1 == Dict([url |-> Text("u"), title |-> Text("t"), publish_date |-> Text("d"),
            excerpts |-> List(<<Str(A), Str(B)>>), full_content |-> Text("f")])
X2 == Dict([url |-> Text("u"), excerpts |-> List(<<Str(A)>>)])
X3 == Dict([url |-> Text("v"), full_content |-> Text("f")])
X4 == Dict([title |-> Text("t")])

ExtractItems == {X1, X2, X3, X4}

E1 == Dict([url |-> Text("v"), error_type |-> Text("x")])
E2 == Dict([url |-> Text("u")])

\* the parts of an extract payload beside `results`
ExtractEnvelopes ==
    {<<>>,
     [extract_id |-> Text("x"), errors |-> List(<<E1, E2>>)],
     [errors |-> List(<<E2, E1, E1>>)]}

ExtractPayloads ==
    {Dict(e) : e \in ExtractEnvelopes}
    \cup {Dict(e @@ [results |-> List(l)]) :
            e \in ExtractEnvelopes, l \in SeqsUpTo(ExtractItems, MaxElems)}

ErrorStatuses == {201, 404, 500}
ErrorTexts == {<<>>, <<"b", "a", "d">>}

HttpResponses(payloads) ==
    {[status_code |-> HTTP_OK, text |-> <<>>, json |-> d] : d \in payloads}
    \cup {[status_code |-> s, text |-> t, json |-> None] :
            s \in ErrorStatuses, t \in ErrorTexts}

DispatchResponses ==
    {[success |-> TRUE, body |-> Dict([results |-> List(<<>>)]), error |-> None],
     [success |-> FALSE, body |-> None,
      error |-> Dict([message |-> Str(<<"n", "o">>)])],
     [success |-> FALSE, body |-> None, error |-> None]}

----------------------------------------------------------------------------
(* The calls *)

Init ==
    /\ environ \in EnvKeys
    /\ pc = "idle"
    /\ op = "none"
    /\ args = <<>>
    /\ sent = <<>>
    /\ response = None
    /\ outcome = None

\* parallel_search up to its await: credential, headers, body, POST /search
SearchCall(queries, objective, max_results, max_chars_per_result, api_key) ==
    /\ pc = "idle"
    /\ LET key == ResolveApiKey(api_key)
       IN /\ op' = "search"
          /\ args' = [queries |-> queries, objective |-> objective,
                      max_results |-> max_results,
                      max_chars_per_result |-> max_chars_per_result,
                      api_key |-> api_key]
          /\ IF CredentialMissing(key)
             THEN /\ pc' = "done"
                  /\ outcome' = ValueErrorRaised
                  /\ sent' = sent
             ELSE /\ pc' = "awaiting"
                  /\ outcome' = None
                  /\ sent' = Append(sent,
                        HttpPost("/search", Headers(key),
                                 SearchBody(queries, objective, max_results,
                                            max_chars_per_result)))
    /\ UNCHANGED <<environ, response>>

\* parallel_search from the answer on: status check, normalisation, return
SearchRespond(resp) ==
    /\ pc = "awaiting"
    /\ op = "search"
    /\ response' = resp
    /\ outcome' = IF resp.status_code # HTTP_OK
                  THEN ApiErrorRaised(resp)
                  ELSE Returned(ParseSearch(resp.json, args.queries))
    /\ pc' = "done"
    /\ UNCHANGED <<environ, op, args, sent>>

\* extract up to its await
ExtractCall(urls, objective, excerpts, full_content, api_key) ==
    /\ pc = "idle"
    /\ LET key == ResolveApiKey(api_key)
       IN /\ op' = "extract"
          /\ args' = [urls |-> urls, objective |-> objective,
                      excerpts |-> excerpts, full_content |-> full_content,
                      api_key |-> api_key]
          /\ IF CredentialMissing(key)
             THEN /\ pc' = "done"
                  /\ outcome' = ValueErrorRaised
                  /\ sent' = sent
             ELSE /\ pc' = "awaiting"
                  /\ outcome' = None
                  /\ sent' = Append(sent,
                        HttpPost("/extract", Headers(key),
                                 ExtractBody(urls, objective, excerpts,
                                             full_content)))
    /\ UNCHANGED <<environ, response>>

\* faulty variant: the url is read as item["url"], a KeyError when it is absent
ExtractRespond_UrlSubscript(resp) ==
    /\ pc = "awaiting"
    /\ op = "extract"
    /\ response' = resp
    /\ outcome' =
          IF resp.status_code # HTTP_OK
          THEN ApiErrorRaised(resp)
          ELSE LET items == Get(resp.json, "results", List(<<>>)).v
               IN IF \E i \in 1..Len(items) : ~HasKey(items[i], "url")
                  THEN [kind |-> "raise", exc |-> "KeyError", msg |-> <<"u", "r", "l">>]
                  ELSE Returned(ExtractResponse(resp.json))
    /\ pc' = "done"
    /\ UNCHANGED <<environ, op, args, sent>>

\* extract from the answer on
ExtractRespond(resp) ==
    /\ pc = "awaiting"
    /\ op = "extract"
    /\ response' = resp
    /\ outcome' = IF resp.status_code # HTTP_OK
                  THEN ApiErrorRaised(resp)
                  ELSE Returned(ExtractResponse(resp.json))
    /\ pc' = "done"
    /\ UNCHANGED <<environ, op, args, sent>>

\* the POST itself fails (timeout, connection): httpx raises out of the call
TransportFailure ==
    /\ pc = "awaiting"
    /\ op \in {"search", "extract"}
    /\ outcome' = [kind |-> "raise", exc |-> "TransportError", msg |-> <<>>]
    /\ pc' = "done"
    /\ UNCHANGED <<environ, op, args, sent, response>>

\* parallel.py parallel_search: body, then _request("/search")
ToolSearchCall(queries, objective, max_results, max_chars_per_result) ==
    /\ pc = "idle"
    /\ op' = "tool_search"
    /\ args' = [queries |-> queries, objective |-> objective,
                max_results |-> max_results,
                max_chars_per_result |-> max_chars_per_result]
    /\ sent' = Append(sent,
            HttpRequest("/search",
                ToolSearchBody(queries, objective, max_results,
                               max_chars_per_result)))
    /\ pc' = "awaiting"
    /\ outcome' = None
    /\ UNCHANGED <<environ, response>>

\* parallel.py parallel_extract: body, then _request("/extract")
ToolExtractCall(urls, objective, excerpts, full_content) ==
    /\ pc = "idle"
    /\ op' = "tool_extract"
    /\ args' = [urls |-> urls, objective |-> objective,
                excerpts |-> excerpts, full_content |-> full_content]
    /\ sent' = Append(sent,
            HttpRequest("/extract",
                ToolExtractBody(urls, objective, excerpts, full_content)))
    /\ pc' = "awaiting"
    /\ outcome' = None
    /\ UNCHANGED <<environ, response>>

\* _request resumes with the dispatch answer
ToolRespond(dispatched) ==
    /\ pc = "awaiting"
    /\ op \in {"tool_search", "tool_extract"}
    /\ response' = dispatched
    /\ outcome' = Returned(RequestResult(dispatched))
    /\ pc' = "done"
    /\ UNCHANGED <<environ, op, args, sent>>

\* the call is over; the server takes the next one
NextCall ==
    /\ pc = "done"
    /\ pc' = "idle"
    /\ op' = "none"
    /\ args' = <<>>
    /\ sent' = <<>>
    /\ response' = None
    /\ outcome' = None
    /\ UNCHANGED environ

Next ==
    \/ \E q \in QueryLists, o \in Objectives, k \in ApiKeys :
          SearchCall(q, o, DEFAULT_MAX_RESULTS, DEFAULT_MAX_CHARS, k)
    \/ \E r \in HttpResponses(SearchPayloads) : SearchRespond(r)
    \/ \E u \in UrlLists, o \in Objectives, e \in BOOLEAN, f \in BOOLEAN,
          k \in ApiKeys :
          ExtractCall(u, o, e, f, k)
    \/ \E r \in HttpResponses(ExtractPayloads) : ExtractRespond(r)
    \/ TransportFailure
    \/ \E q \in QueryLists, o \in Objectives :
          ToolSearchCall(q, o, DEFAULT_MAX_RESULTS, DEFAULT_MAX_CHARS)
    \/ \E u \in UrlLists, o \in Objectives, e \in BOOLEAN, f \in BOOLEAN :
          ToolExtractCall(u, o, e, f)
    \/ \E d \in DispatchResponses : ToolRespond(d)
    \/ NextCall

Spec == Init /\ [][Next]_vars

----------------------------------------------------------------------------
(* Vocabulary of the properties below *)

SearchDone == pc = "done" /\ op = "search"
ExtractDone == pc = "done" /\ op = "extract"
AdapterCall == op \in {"search", "extract"}

\* the call resumed with an HTTP answer (not a transport failure)
Answered == AdapterCall /\ pc = "done" /\ response # None
Answered200 == Answered /\ response.status_code = 200

\* the raw `results` of the answer is a list
HasResultsList ==
    /\ "results" \in DOMAIN response.json.v
    /\ response.json.v["results"].t = "list"
RemoteList == response.json.v["results"].v

GroupedPayload ==
    HasResultsList /\ Len(RemoteList) > 0 /\ "query" \in DOMAIN RemoteList[1].v
FlatPayload ==
    HasResultsList /\ Len(RemoteList) > 0 /\ "query" \notin DOMAIN RemoteList[1].v
EmptyPayload == ~HasResultsList \/ Len(RemoteList) = 0

\* sub occurs in s as a contiguous run
Contains(s, sub) ==
    \E i \in 1..(Len(s) - Len(sub) + 1) : SubSeq(s, i, i + Len(sub) - 1) = sub

\* decimal text of the status codes the remote answers with
StatusText(status) ==
    CASE status = 201 -> <<"2", "0", "1">>
      [] status = 404 -> <<"4", "0", "4">>
      [] status = 500 -> <<"5", "0", "0">>

----------------------------------------------------------------------------
(* C1: for a non-empty query list and a 200 answer whose payload is        *)
(* grouped-by-query or empty/unrecognized, parallel_search returns as many *)
(* SearchResponse entries as there are input queries, however many groups  *)
(* the remote returned.                                                    *)
C1_OnePerQuery ==
    (SearchDone /\ Answered200 /\ Len(args.queries) > 0
        /\ (GroupedPayload \/ EmptyPayload))
    => (outcome.kind = "return" /\ Len(outcome.value) = Len(args.queries))

(* C2: every SearchResponse parallel_search returns, in the grouped, flat  *)
(* and empty shapes alike, has total_results equal to the length of its    *)
(* results.                                                                *)
C2_TotalIsLength ==
    (SearchDone /\ outcome.kind = "return")
    => \A r \in 1..Len(outcome.value) :
          outcome.value[r].total_results = Len(outcome.value[r].results)

C2_Witness ==
    /\ SearchDone /\ Answered200 /\ FlatPayload
    /\ outcome.kind = "return"
    /\ outcome.value[1].total_results = 2
    /\ Len(outcome.value[1].results) = 2

(* C3: with no usable credential (api_key argument absent or empty, and    *)
(* PARALLEL_API_KEY unset or empty) parallel_search and extract raise the  *)
(* configuration error, and in no state of that call has a request been    *)
(* issued.                                                                 *)
NoCredential == ~Truthy(args.api_key) /\ ~Truthy(environ)

C3_FailsBeforeAnyRequest ==
    (AdapterCall /\ NoCredential)
    => /\ pc = "done"
       /\ outcome.kind = "raise"
       /\ outcome.exc = "ValueError"
       /\ sent = <<>>
       /\ response = None

C3_Witness ==
    /\ op = "extract" /\ pc = "done"
    /\ args.api_key = Str(<<>>) /\ environ = None
    /\ outcome.kind = "raise" /\ outcome.exc = "ValueError"
    /\ sent = <<>>

(* C4: on any answer whose status is not 200, parallel_search and extract  *)
(* raise an error whose message contains the status code and the raw body, *)
(* return nothing, and have issued exactly one request.                    *)
C4_Non200Raises ==
    (Answered /\ response.status_code # 200)
    => /\ outcome.kind = "raise"
       /\ outcome.exc = "Exception"
       /\ Contains(outcome.msg, StatusText(response.status_code))
       /\ Contains(outcome.msg, response.text)
       /\ Len(sent) = 1

C4_Witness ==
    /\ SearchDone /\ response # None
    /\ response.status_code = 500 /\ response.text = <<"b", "a", "d">>
    /\ outcome.kind = "raise"
    /\ Contains(outcome.msg, <<"(", "5", "0", "0", ")", ":", " ", "b", "a", "d">>)
    /\ Len(sent) = 1

RECURSIVE JoinedWith(_, _)
\* the strings of strs in order, sep between neighbours
JoinedWith(sep, strs) ==
    IF Len(strs) = 0 THEN <<>>
    ELSE IF Len(strs) = 1 THEN strs[1]
    ELSE JoinedWith(sep, SubSeq(strs, 1, Len(strs) - 1)) \o sep \o strs[Len(strs)]

\* a request for /search left the process; its JSON body
SearchRequested == op \in {"search", "tool_search"} /\ Len(sent) > 0
ExtractRequested == op \in {"extract", "tool_extract"} /\ Len(sent) > 0
RequestBody == IF AdapterCall THEN sent[1].json ELSE sent[1].body

SynthesizedObjective ==
    DefaultObjectivePrefix \o JoinedWith(<<",", " ">>, args.queries)

(* C5: without an objective the request body's objective is "Find relevant *)
(* information for: " followed by the queries joined with ", " in input    *)
(* order; with an objective supplied it is that value unchanged.           *)
C5_ObjectiveAsSupplied ==
    SearchRequested
    => RequestBody.objective =
          IF args.objective = None THEN SynthesizedObjective
          ELSE args.objective.v

(* C5 as amended: an absent or empty objective is replaced by the          *)
(* synthesized one; a non-empty objective is sent unchanged.               *)
C5_ObjectiveUnlessEmpty ==
    SearchRequested
    => RequestBody.objective =
          IF args.objective = None \/ args.objective.v = <<>>
          THEN SynthesizedObjective
          ELSE args.objective.v

C5_Witness ==
    /\ op = "search" /\ pc = "awaiting"
    /\ args.objective = Str(<<>>)
    /\ args.queries = <<A, B>>
    /\ sent[1].json.objective =
          <<"F","i","n","d"," ","r","e","l","e","v","a","n","t"," ",
            "i","n","f","o","r","m","a","t","i","o","n"," ","f","o","r",":"," ",
            "a", ",", " ", "b">>

(* C6: in the flat shape each item's excerpt is its `excerpts` list joined *)
(* with "\n\n" in list order when that list is present and non-empty, else *)
(* its `content`, else null.                                               *)
C6_FlatExcerpt ==
    (SearchDone /\ Answered200 /\ FlatPayload)
    => /\ outcome.kind = "return"
       /\ Len(outcome.value) = 1
       /\ Len(outcome.value[1].results) = Len(RemoteList)
       /\ \A i \in 1..Len(RemoteList) :
            LET item == RemoteList[i].v
                got == outcome.value[1].results[i].excerpt
            IN IF "excerpts" \in DOMAIN item /\ Len(item["excerpts"].v) > 0
               THEN got = Str(JoinedWith(<<"\n", "\n">>,
                            [k \in 1..Len(item["excerpts"].v) |->
                                item["excerpts"].v[k].v]))
               ELSE IF "content" \in DOMAIN item
                    THEN got = item["content"]
                    ELSE got = None

C6_Witness ==
    /\ SearchDone /\ Answered200 /\ FlatPayload
    /\ RemoteList = <<F1, F3>>
    /\ outcome.value[1].results[1].excerpt = Str(<<"a", "\n", "\n", "b">>)
    /\ outcome.value[1].results[2].excerpt = Text("c")

(* C7: when the raw `results` of a 200 search answer is empty, absent or   *)
(* not a list, parallel_search returns one SearchResponse per input query, *)
(* in input order, each with that query, no results and total_results 0.   *)
C7_EmptyPerQuery ==
    (SearchDone /\ Answered200 /\ EmptyPayload)
    => /\ outcome.kind = "return"
       /\ Len(outcome.value) = Len(args.queries)
       /\ \A q \in 1..Len(args.queries) :
            outcome.value[q] =
                [query |-> args.queries[q], results |-> <<>>, total_results |-> 0]

C7_Witness ==
    /\ SearchDone /\ Answered200
    /\ "results" \in DOMAIN response.json.v
    /\ response.json.v["results"] = Str(A)
    /\ args.queries = <<B, A>>
    /\ outcome.kind = "return"
    /\ Len(outcome.value) = 2
    /\ outcome.value[1].query = B /\ outcome.value[2].query = A

(* C8: the extract request body carries urls, excerpts and full_content as *)
(* passed, and an `objective` key if and only if an objective was          *)
(* supplied.                                                               *)
C8_ObjectiveKeyIffSupplied ==
    ExtractRequested
    => /\ RequestBody.urls = args.urls
       /\ RequestBody.excerpts = args.excerpts
       /\ RequestBody.full_content = args.full_content
       /\ ("objective" \in DOMAIN RequestBody) <=> (args.objective # None)

(* C8 as amended: the `objective` key is present if and only if a          *)
(* non-empty objective was supplied, and then holds it unchanged; an       *)
(* absent or empty objective leaves the key out.                           *)
C8_ObjectiveKeyIffNonEmpty ==
    ExtractRequested
    => /\ RequestBody.urls = args.urls
       /\ RequestBody.excerpts = args.excerpts
       /\ RequestBody.full_content = args.full_content
       /\ ("objective" \in DOMAIN RequestBody) <=> Truthy(args.objective)
       /\ Truthy(args.objective) => RequestBody.objective = args.objective.v
       /\ DOMAIN RequestBody \subseteq {"urls", "excerpts", "full_content", "objective"}

C8_Witness ==
    /\ op = "extract" /\ pc = "awaiting"
    /\ args.objective = Str(<<>>)
    /\ args.urls = <<<<"v">>, <<"u">>>>
    /\ args.excerpts = FALSE /\ args.full_content = TRUE
    /\ DOMAIN sent[1].json = {"urls", "excerpts", "full_content"}
    /\ sent[1].json.urls = <<<<"v">>, <<"u">>>>

\* item[key] when the remote sent the key, else the default
FieldOr(item, key, default) == IF key \in DOMAIN item.v THEN item.v[key] ELSE default

\* the raw `results` and `errors` of a 200 extract answer, empty when absent
RemoteExtractResults == FieldOr(response.json, "results", List(<<>>)).v
RemoteExtractErrors == FieldOr(response.json, "errors", List(<<>>)).v

(* C9: for a 200 extract answer the returned ExtractResponse has one       *)
(* result per remote result, in the remote order, and the remote errors    *)
(* list as it is; each result's excerpts and full_content are the          *)
(* same-named remote fields, neither made from the other.                  *)
C9_ExtractMirrorsRemote ==
    (ExtractDone /\ Answered200)
    => /\ outcome.kind = "return"
       /\ Len(outcome.value.results) = Len(RemoteExtractResults)
       /\ \A i \in 1..Len(RemoteExtractResults) :
            LET item == RemoteExtractResults[i]
                got == outcome.value.results[i]
            IN /\ got.url = FieldOr(item, "url", Str(<<>>))
               /\ got.title = FieldOr(item, "title", None)
               /\ got.publish_date = FieldOr(item, "publish_date", None)
               /\ got.excerpts = FieldOr(item, "excerpts", None)
               /\ got.full_content = FieldOr(item, "full_content", None)
       /\ outcome.value.errors = RemoteExtractErrors

C9_Witness ==
    /\ ExtractDone /\ Answered200
    /\ Len(args.urls) = 1
    /\ RemoteExtractResults = <<X2, X2>>
    /\ RemoteExtractErrors = <<E2, E1, E1>>
    /\ outcome.kind = "return"
    /\ Len(outcome.value.results) = 2
    /\ outcome.value.results[2].excerpts = List(<<Str(A)>>)
    /\ outcome.value.results[2].full_content = None
    /\ outcome.value.errors = <<E2, E1, E1>>

(* C10: for a non-empty list-valued `results` the first element alone      *)
(* decides the shape: with a `query` key, every element is decoded as a    *)
(* group, one SearchResponse per group in remote order with the group's    *)
(* query; without it, all elements are folded in remote order into one     *)
(* SearchResponse whose query is the input queries joined with ", ".       *)
C10_FirstElementDecides ==
    (SearchDone /\ Answered200 /\ HasResultsList /\ Len(RemoteList) > 0)
    => /\ outcome.kind = "return"
       /\ IF "query" \in DOMAIN RemoteList[1].v
          THEN /\ Len(outcome.value) = Len(RemoteList)
               /\ \A g \in 1..Len(RemoteList) :
                    LET group == RemoteList[g]
                        items == FieldOr(group, "results", List(<<>>)).v
                        got == outcome.value[g]
                    IN /\ got.query = FieldOr(group, "query", Str(<<>>)).v
                       /\ Len(got.results) = Len(items)
                       /\ \A i \in 1..Len(items) :
                            /\ got.results[i].title = FieldOr(items[i], "title", None)
                            /\ got.results[i].url = FieldOr(items[i], "url", None)
          ELSE /\ Len(outcome.value) = 1
               /\ outcome.value[1].query = JoinedWith(<<",", " ">>, args.queries)
               /\ Len(outcome.value[1].results) = Len(RemoteList)
               /\ \A i \in 1..Len(RemoteList) :
                    /\ outcome.value[1].results[i].title =
                          FieldOr(RemoteList[i], "title", None)
                    /\ outcome.value[1].results[i].url =
                          FieldOr(RemoteList[i], "url", None)
                    /\ outcome.value[1].results[i].source =
                          FieldOr(RemoteList[i], "source", None)

C10_Witness ==
    /\ SearchDone /\ Answered200 /\ HasResultsList
    /\ RemoteList = <<F1, G2>>
    /\ args.queries = <<A, B>>
    /\ outcome.kind = "return"
    /\ Len(outcome.value) = 1
    /\ outcome.value[1].query = <<"a", ",", " ", "b">>
    /\ outcome.value[1].results[1].title = Text("t")
    /\ outcome.value[1].results[2].title = None

\* key is absent from the remote object
Absent(item, key) == key \notin DOMAIN item.v

\* a returned SearchResult carries the defaults of the pass-through fields
\* the remote item lacks
SearchItemDefaults(item, got) ==
    /\ Absent(item, "title") => got.title = None
    /\ Absent(item, "url") => got.url = None
    /\ Absent(item, "source") => got.source = None

====
